---- MODULE Spec2Model ----
(***************************************************************************)
(* Model of the Facecloud policy and envelope evaluation kernel:           *)
(*   - the precondition gate of eco-corridor-core                          *)
(*     (IndigenousEcoCorridorMap::check_preconditions), and                *)
(*   - the safety-envelope classifier of facecloud-core                    *)
(*     (EnvelopeConfig::evaluate) and the GuardKernel wrapping it,         *)
(*   - the multi-factor decision and access-policy verdict of              *)
(*     facecloud-dna-auth (evaluate_mfa, evaluate_policy),                 *)
(*   - the validated scalars, aggregates and corridor identifiers of the   *)
(*     three corridor crates.                                              *)
(*                                                                         *)
(* f32 values are modelled as exact rationals [num, den] in lowest terms   *)
(* with den > 0.  Every sample value used below is finite; NaN and the     *)
(* infinities are outside the modelled domain.                             *)
(***************************************************************************)
EXTENDS Integers, Sequences, FiniteSets, TLC

VARIABLES map, request, outcome, config, telemetry, evaluation,
          recommendation, ctx, auth, policyIn, verdict,
          scalarIn, scalarOut, bundle, aggResult, idIn, idOut,
          guard, record, metrics, lock, lockOrder, callers,
          corridors, history, lookup, fpicIn, labelOut

gateVars == <<map, request, outcome>>

envVars == <<config, telemetry, evaluation>>

guardVars == <<recommendation>>

authVars == <<ctx, auth, policyIn, verdict>>

scalarVars == <<scalarIn, scalarOut>>

aggVars == <<bundle, aggResult>>

idVars == <<idIn, idOut>>

apiVars == <<guard, record, metrics, lock, lockOrder, callers>>

registryVars == <<corridors, history, lookup>>

fpicVars == <<fpicIn, labelOut>>

vars == <<gateVars, envVars, guardVars, authVars, scalarVars, aggVars, idVars, apiVars, registryVars, fpicVars>>

----------------------------------------------------------------------------
(* Bounds *)

\* Longest Vec<NeurorightsFlag> a corridor record is built with.
MaxFlags == 3

\* Telemetry readings are the halves -1/2, 0, 1/2, ..., TelNum/2.
TelNum == 3

\* Raw scalar inputs are the multiples of 1/ScalarDen from -1 to 2.
ScalarDen == 20

\* Components of a metrics bundle are the multiples of 1/AggDen in [0, 1].
AggDen == 2

\* Longest string handed to a CorridorId constructor.
MaxIdLen == 3

\* Number of callers running concurrently.
NumCallers == 2

\* Longest sequence of upsert_corridor calls on one map.
MaxUpserts == 3

----------------------------------------------------------------------------
(* f32 arithmetic on finite values, as exact rationals *)

Abs(n) == IF n < 0 THEN -n ELSE n

RECURSIVE GCD(_, _)
GCD(a, b) == IF b = 0 THEN a ELSE GCD(b, a % b)

\* The rational n/d in lowest terms with a positive denominator (d # 0).
Rat(n, d) ==
    LET s == IF d < 0 THEN -1 ELSE 1
        g == GCD(Abs(n), Abs(d))
    IN  [num |-> (s * n) \div g, den |-> (s * d) \div g]

Zero == Rat(0, 1)

One == Rat(1, 1)

RLt(a, b) == a.num * b.den < b.num * a.den

RLe(a, b) == a.num * b.den <= b.num * a.den

RGt(a, b) == RLt(b, a)

RGe(a, b) == RLe(b, a)

RAdd(a, b) == Rat(a.num * b.den + b.num * a.den, a.den * b.den)

RSub(a, b) == Rat(a.num * b.den - b.num * a.den, a.den * b.den)

\* a / b for b # 0.
RDiv(a, b) == Rat(a.num * b.den, a.den * b.num)

\* f32::min on two numbers: the smaller one.
RMin(a, b) == IF RLt(b, a) THEN b ELSE a

\* f32 multiplication
RMul(a, b) == Rat(a.num * b.num, a.den * b.den)

\* f32 as i64: the fractional part is dropped, towards zero.
AsI64(x) == IF x.num >= 0 THEN x.num \div x.den ELSE -((-x.num) \div x.den)

\* max that forgets its second argument.
RMax_first(a, b) == a

\* f32::max on two numbers: the larger one.
RMax(a, b) == IF RLt(a, b) THEN b ELSE a

\* f32::clamp(lo, hi).
RClamp(x, lo, hi) == IF RLt(x, lo) THEN lo ELSE IF RGt(x, hi) THEN hi ELSE x

\* The half-open range (lo..hi) in place of (lo..=hi).
RangeContains_exclusive(lo, hi, x) == RLe(lo, x) /\ RLt(x, hi)

\* (lo..=hi).contains(&x)
RangeContains(lo, hi, x) == RLe(lo, x) /\ RLe(x, hi)

\* format!("{:.3}", x) for x >= 0: the number of thousandths printed,
\* the exact value rounded to three decimals, ties to even.
Fmt3(x) ==
    LET n == x.num * 1000
        q == n \div x.den
        r == n % x.den
    IN  IF 2 * r > x.den THEN q + 1
        ELSE IF 2 * r = x.den THEN q + (q % 2)
        ELSE q

----------------------------------------------------------------------------
(* eco-corridor-core: data model *)

\* Option<T>: None is the empty sequence, Some(v) the one-element sequence.
None == <<>>

Some(v) == <<v>>

Unwrap(o) == o[1]

\* CorridorId values that passed CorridorId::from_str.
CorridorIds == {"did:corridor:a", "did:corridor:b"}

\* EcoScalar::new: Ok(value) exactly for 0.0 <= value <= 1.0.
EcoScalar_new(value) ==
    IF ~RangeContains(Zero, One, value)
    THEN [ok |-> FALSE, err |-> "EcoScalar must be within [0.0, 1.0]"]
    ELSE [ok |-> TRUE, value |-> value]

\* EcoImpactMetrics bundles of four EcoScalars.
Metrics(soil, water, micro, resil) ==
    [soil_health |-> soil, water_quality |-> water,
     microbiome_diversity |-> micro, corridor_resilience |-> resil]

\* Sample bundles: the one of the crate's test (aggregate 0.8125), the
\* all-zero bundle, and a bundle whose aggregate is exactly 1/2.
EcoMetricsSamples ==
    { Metrics(Rat(4, 5), Rat(7, 10), Rat(9, 10), Rat(17, 20)),
      Metrics(Zero, Zero, Zero, Zero),
      Metrics(One, Zero, Rat(1, 4), Rat(3, 4)) }

\* EcoImpactMetrics::aggregate_score: clamped mean of the four scalars.
aggregate_score(m) ==
    LET s == RAdd(RAdd(RAdd(m.soil_health, m.water_quality),
                       m.microbiome_diversity), m.corridor_resilience)
    IN  RClamp(RDiv(s, Rat(4, 1)), Zero, One)

ConsentStatus == {"Granted", "Revoked", "Pending"}

\* VerifiableConsent capsules.
VerifiableConsent ==
    [issuer_did : {"did:council:x"},
     subject_corridor_id : CorridorIds,
     status : ConsentStatus,
     issued_at : {1},
     revoked_at : {None, Some(2)},
     signature_hex : {"deadbeef"}]

\* is_effectively_granted without the look at the revocation timestamp.
is_effectively_granted_status_only(vc) == vc.status = "Granted"

\* VerifiableConsent::is_effectively_granted
is_effectively_granted(vc) == vc.status = "Granted" /\ vc.revoked_at = None

NeurorightsFlag == {"ForbidFearPainCoercion", "NoMentalManipulation", "NoCovertInference"}

\* NeurorightsFlags: a Vec of flags, in any order, repetitions allowed.
NeurorightsFlags == UNION {[1..n -> NeurorightsFlag] : n \in 0..MaxFlags}

\* contains looking at the first element only.
contains_first_only(flags, flag) == Len(flags) > 0 /\ flags[1] = flag

\* NeurorightsFlags::contains
contains(flags, flag) == \E i \in 1..Len(flags) : flags[i] = flag

\* FpicIdsState = Option<VerifiableConsent>
FpicIdsState == {None} \cup {Some(vc) : vc \in VerifiableConsent}

\* IndigenousEcoCorridorMap::new
IndigenousEcoCorridorMap_new(corridor_id, eco_metrics, fpic_ids_state, neurorights_flags) ==
    [corridor_id |-> corridor_id, eco_metrics |-> eco_metrics,
     fpic_ids_state |-> fpic_ids_state, neurorights_flags |-> neurorights_flags]

\* Values passed as required_min_eco_score, two of them out of range.
RequiredScores == {Rat(-1, 2), Zero, Rat(1, 2), Rat(3, 5), One, Rat(3, 2)}

\* CorridorActionRequest::new
CorridorActionRequest_new(corridor_id, required_min_eco_score, high_impact, may_use_fear_pain_channels, may_infer_mental_state, may_attempt_belief_shaping) ==
    IF ~RangeContains(Zero, One, required_min_eco_score)
    THEN [ok |-> FALSE, err |-> "required_min_eco_score must be within [0.0, 1.0]"]
    ELSE [ok |-> TRUE,
          value |-> [corridor_id |-> corridor_id,
                     required_min_eco_score |-> required_min_eco_score,
                     high_impact |-> high_impact,
                     may_use_fear_pain_channels |-> may_use_fear_pain_channels,
                     may_infer_mental_state |-> may_infer_mental_state,
                     may_attempt_belief_shaping |-> may_attempt_belief_shaping]]

----------------------------------------------------------------------------
(* eco-corridor-core: the precondition gate *)

Ok == [ok |-> TRUE]

Err(reason) == [ok |-> FALSE, reason |-> reason]

MismatchReason == <<"Corridor mismatch: action corridor_id does not match map corridor_id">>

EcoReason(required, agg) ==
    <<"EcoImpact guard: required_min_eco_score > corridor aggregate", Fmt3(required), Fmt3(agg)>>

NoConsentReason == <<"FPIC/IDS guard: no consent credential present for high-impact action">>

NotGrantedReason == <<"FPIC/IDS guard: consent not granted or already revoked">>

FearPainReason == <<"Neurorights guard: FEAR/PAIN channels are forbidden in this corridor">>

InferenceReason == <<"Neurorights guard: covert mental-state inference is forbidden in this corridor">>

BeliefReason == <<"Neurorights guard: mental manipulation / belief-shaping is forbidden">>

\* check_preconditions with the threshold comparison >= in place of >.
check_preconditions_eco_strict(self, req) ==
    LET agg == aggregate_score(self.eco_metrics)
    IN  IF req.corridor_id # self.corridor_id
        THEN Err(MismatchReason)
        ELSE IF RGe(req.required_min_eco_score, agg)
        THEN Err(EcoReason(req.required_min_eco_score, agg))
        ELSE IF req.high_impact /\ self.fpic_ids_state = None
        THEN Err(NoConsentReason)
        ELSE IF req.high_impact /\ ~is_effectively_granted(Unwrap(self.fpic_ids_state))
        THEN Err(NotGrantedReason)
        ELSE IF req.may_use_fear_pain_channels
                /\ contains(self.neurorights_flags, "ForbidFearPainCoercion")
        THEN Err(FearPainReason)
        ELSE IF req.may_infer_mental_state
                /\ contains(self.neurorights_flags, "NoCovertInference")
        THEN Err(InferenceReason)
        ELSE IF req.may_attempt_belief_shaping
                /\ contains(self.neurorights_flags, "NoMentalManipulation")
        THEN Err(BeliefReason)
        ELSE Ok

\* check_preconditions with the ecological guard ahead of the identity guard.
check_preconditions_eco_first(self, req) ==
    LET agg == aggregate_score(self.eco_metrics)
    IN  IF RGt(req.required_min_eco_score, agg)
        THEN Err(EcoReason(req.required_min_eco_score, agg))
        ELSE IF req.corridor_id # self.corridor_id
        THEN Err(MismatchReason)
        ELSE IF req.high_impact /\ self.fpic_ids_state = None
        THEN Err(NoConsentReason)
        ELSE IF req.high_impact /\ ~is_effectively_granted(Unwrap(self.fpic_ids_state))
        THEN Err(NotGrantedReason)
        ELSE IF req.may_use_fear_pain_channels
                /\ contains(self.neurorights_flags, "ForbidFearPainCoercion")
        THEN Err(FearPainReason)
        ELSE IF req.may_infer_mental_state
                /\ contains(self.neurorights_flags, "NoCovertInference")
        THEN Err(InferenceReason)
        ELSE IF req.may_attempt_belief_shaping
                /\ contains(self.neurorights_flags, "NoMentalManipulation")
        THEN Err(BeliefReason)
        ELSE Ok

\* check_preconditions with the three rights guards ahead of the consent guard.
check_preconditions_rights_first(self, req) ==
    LET agg == aggregate_score(self.eco_metrics)
    IN  IF req.corridor_id # self.corridor_id
        THEN Err(MismatchReason)
        ELSE IF RGt(req.required_min_eco_score, agg)
        THEN Err(EcoReason(req.required_min_eco_score, agg))
        ELSE IF req.may_use_fear_pain_channels
                /\ contains(self.neurorights_flags, "ForbidFearPainCoercion")
        THEN Err(FearPainReason)
        ELSE IF req.may_infer_mental_state
                /\ contains(self.neurorights_flags, "NoCovertInference")
        THEN Err(InferenceReason)
        ELSE IF req.may_attempt_belief_shaping
                /\ contains(self.neurorights_flags, "NoMentalManipulation")
        THEN Err(BeliefReason)
        ELSE IF req.high_impact /\ self.fpic_ids_state = None
        THEN Err(NoConsentReason)
        ELSE IF req.high_impact /\ ~is_effectively_granted(Unwrap(self.fpic_ids_state))
        THEN Err(NotGrantedReason)
        ELSE Ok

\* check_preconditions with the consent guard applied to every request.
check_preconditions_consent_always(self, req) ==
    LET agg == aggregate_score(self.eco_metrics)
    IN  IF req.corridor_id # self.corridor_id
        THEN Err(MismatchReason)
        ELSE IF RGt(req.required_min_eco_score, agg)
        THEN Err(EcoReason(req.required_min_eco_score, agg))
        ELSE IF self.fpic_ids_state = None
        THEN Err(NoConsentReason)
        ELSE IF ~is_effectively_granted(Unwrap(self.fpic_ids_state))
        THEN Err(NotGrantedReason)
        ELSE IF req.may_use_fear_pain_channels
                /\ contains(self.neurorights_flags, "ForbidFearPainCoercion")
        THEN Err(FearPainReason)
        ELSE IF req.may_infer_mental_state
                /\ contains(self.neurorights_flags, "NoCovertInference")
        THEN Err(InferenceReason)
        ELSE IF req.may_attempt_belief_shaping
                /\ contains(self.neurorights_flags, "NoMentalManipulation")
        THEN Err(BeliefReason)
        ELSE Ok

\* check_preconditions accepting a consent only for the record's corridor.
check_preconditions_subject_bound(self, req) ==
    LET agg == aggregate_score(self.eco_metrics)
    IN  IF req.corridor_id # self.corridor_id
        THEN Err(MismatchReason)
        ELSE IF RGt(req.required_min_eco_score, agg)
        THEN Err(EcoReason(req.required_min_eco_score, agg))
        ELSE IF req.high_impact /\ self.fpic_ids_state = None
        THEN Err(NoConsentReason)
        ELSE IF req.high_impact
                /\ (\/ ~is_effectively_granted(Unwrap(self.fpic_ids_state))
                    \/ Unwrap(self.fpic_ids_state).subject_corridor_id # self.corridor_id)
        THEN Err(NotGrantedReason)
        ELSE IF req.may_use_fear_pain_channels
                /\ contains(self.neurorights_flags, "ForbidFearPainCoercion")
        THEN Err(FearPainReason)
        ELSE IF req.may_infer_mental_state
                /\ contains(self.neurorights_flags, "NoCovertInference")
        THEN Err(InferenceReason)
        ELSE IF req.may_attempt_belief_shaping
                /\ contains(self.neurorights_flags, "NoMentalManipulation")
        THEN Err(BeliefReason)
        ELSE Ok

\* IndigenousEcoCorridorMap::check_preconditions
check_preconditions(self, req) ==
    LET agg == aggregate_score(self.eco_metrics)
    IN  IF req.corridor_id # self.corridor_id
        THEN Err(MismatchReason)
        ELSE IF RGt(req.required_min_eco_score, agg)
        THEN Err(EcoReason(req.required_min_eco_score, agg))
        ELSE IF req.high_impact /\ self.fpic_ids_state = None
        THEN Err(NoConsentReason)
        ELSE IF req.high_impact /\ ~is_effectively_granted(Unwrap(self.fpic_ids_state))
        THEN Err(NotGrantedReason)
        ELSE IF req.may_use_fear_pain_channels
                /\ contains(self.neurorights_flags, "ForbidFearPainCoercion")
        THEN Err(FearPainReason)
        ELSE IF req.may_infer_mental_state
                /\ contains(self.neurorights_flags, "NoCovertInference")
        THEN Err(InferenceReason)
        ELSE IF req.may_attempt_belief_shaping
                /\ contains(self.neurorights_flags, "NoMentalManipulation")
        THEN Err(BeliefReason)
        ELSE Ok

\* No request built / no call made yet.
NoRequest == None

NoOutcome == None

Idle == None

\* The parts of the state a specification leaves untouched.
IdleGate == map = Idle /\ request = NoRequest /\ outcome = NoOutcome

IdleEnvelope == config = Idle /\ telemetry = Idle /\ evaluation = Idle

IdleGuard == recommendation = Idle

IdleAuth == ctx = Idle /\ auth = Idle /\ policyIn = Idle /\ verdict = Idle

IdleScalar == scalarIn = Idle /\ scalarOut = Idle

IdleAggregate == bundle = Idle /\ aggResult = Idle

IdleId == idIn = Idle /\ idOut = Idle

IdleApi == guard = Idle /\ record = Idle /\ metrics = Idle /\ lock = Idle /\ lockOrder = Idle /\ callers = Idle

IdleRegistry == corridors = Idle /\ history = Idle /\ lookup = Idle

IdleFpic == fpicIn = Idle /\ labelOut = Idle

\* A corridor record has been built; no request yet.
InitGate ==
    /\ map \in {IndigenousEcoCorridorMap_new(c, m, f, n) :
                    c \in CorridorIds, m \in EcoMetricsSamples,
                    f \in FpicIdsState, n \in NeurorightsFlags}
    /\ request = NoRequest
    /\ outcome = NoOutcome
    /\ config = Idle
    /\ telemetry = Idle
    /\ evaluation = Idle
    /\ IdleGuard /\ IdleAuth /\ IdleScalar /\ IdleAggregate /\ IdleId
    /\ IdleApi /\ IdleRegistry /\ IdleFpic

\* A caller builds the request of its proposed action; a rejected
\* construction yields no request.
NewRequest ==
    /\ request = NoRequest
    /\ \E c \in CorridorIds, s \in RequiredScores, h \in BOOLEAN,
       fp \in BOOLEAN, inf \in BOOLEAN, bs \in BOOLEAN :
        LET r == CorridorActionRequest_new(c, s, h, fp, inf, bs)
        IN  /\ request' = IF r.ok THEN Some(r.value) ELSE NoRequest
            /\ UNCHANGED <<map, outcome, envVars, guardVars, authVars, scalarVars, aggVars, idVars, apiVars, registryVars, fpicVars>>

\* The caller queries the gate with the request it built.
CheckPreconditions ==
    /\ request # NoRequest
    /\ outcome = NoOutcome
    /\ outcome' = Some(check_preconditions(map, Unwrap(request)))
    /\ UNCHANGED <<map, request, envVars, guardVars, authVars, scalarVars, aggVars, idVars, apiVars, registryVars, fpicVars>>

NextGate == NewRequest \/ CheckPreconditions

SpecGate == InitGate /\ [][NextGate]_vars

----------------------------------------------------------------------------
(* facecloud-core: the safety envelope *)

\* EnvelopeConfig::default
EnvelopeConfig_default ==
    [mech_density_max |-> Rat(1, 1),
     interface_coherence_min |-> Rat(4, 5),
     em_field_max |-> Rat(1, 1),
     thermal_max |-> Rat(1, 1),
     inflammation_max |-> Rat(1, 1),
     spike_energy_max |-> Rat(1, 1),
     caution_lower |-> Rat(1, 1),
     caution_upper |-> Rat(11, 10)]

\* EnvelopeConfig is a public struct of public fields: besides the default,
\* configs that differ from it in one bound or in the caution band.
ConfigSamples ==
    {EnvelopeConfig_default}
    \cup {[EnvelopeConfig_default EXCEPT ![f] = Rat(3, 1)] :
            f \in {"mech_density_max", "em_field_max", "thermal_max",
                   "inflammation_max", "spike_energy_max"}}
    \cup {[EnvelopeConfig_default EXCEPT !.interface_coherence_min = Rat(1, 2)]}
    \cup {[EnvelopeConfig_default EXCEPT !.caution_lower = b[1], !.caution_upper = b[2]] :
            b \in {<<Rat(1, 1), Rat(1, 1)>>, <<Zero, Rat(1, 2)>>, <<Rat(2, 1), Rat(1, 1)>>}}

\* Sensor readings: the halves from -1/2 to TelNum/2.
Readings == {Rat(n, 2) : n \in -1..TelNum}

\* InterfaceTelemetry bundles.
InterfaceTelemetry ==
    [mech_density : Readings, interface_coherence : Readings, em_field : Readings,
     thermal_load : Readings, inflammation : Readings, spike_energy : Readings]

\* The telemetry whose six readings sit exactly on the configured bounds.
BoundTelemetry(cfg) ==
    [mech_density |-> cfg.mech_density_max,
     interface_coherence |-> cfg.interface_coherence_min,
     em_field |-> cfg.em_field_max,
     thermal_load |-> cfg.thermal_max,
     inflammation |-> cfg.inflammation_max,
     spike_energy |-> cfg.spike_energy_max]

\* EnvelopeConfig::mech_density_margin
mech_density_margin(self, d) ==
    IF RLe(d, Zero) THEN Rat(2, 1) ELSE RDiv(self.mech_density_max, d)

\* interface_coherence_margin with the zero-reading branch of the
\* upper-bounded margins.
interface_coherence_margin_doubly_safe(self, c) ==
    IF RLe(c, Zero) THEN Rat(2, 1) ELSE RDiv(c, self.interface_coherence_min)

\* EnvelopeConfig::interface_coherence_margin
interface_coherence_margin(self, c) ==
    IF RLe(c, Zero) THEN Zero ELSE RDiv(c, self.interface_coherence_min)

\* EnvelopeConfig::upper_bounded_margin
upper_bounded_margin(self, value, max) ==
    IF RLe(value, Zero) THEN max ELSE RDiv(max, value)

\* composite without the last margin.
composite_five(m) ==
    RMin(RMin(RMin(RMin(m.mech_density_margin, m.interface_coherence_margin),
                   m.em_field_margin), m.thermal_margin), m.inflammation_margin)

\* ConstraintMargins::composite
composite(m) ==
    RMin(RMin(RMin(RMin(RMin(m.mech_density_margin, m.interface_coherence_margin),
                        m.em_field_margin), m.thermal_margin),
              m.inflammation_margin), m.spike_energy_margin)

\* evaluate with HardDeny also at composite = caution_lower.
evaluate_deny_at_lower(self, tel) ==
    LET margins ==
            [mech_density_margin |-> mech_density_margin(self, tel.mech_density),
             interface_coherence_margin |->
                 interface_coherence_margin(self, tel.interface_coherence),
             em_field_margin |->
                 upper_bounded_margin(self, tel.em_field, self.em_field_max),
             thermal_margin |->
                 upper_bounded_margin(self, tel.thermal_load, self.thermal_max),
             inflammation_margin |->
                 upper_bounded_margin(self, tel.inflammation, self.inflammation_max),
             spike_energy_margin |->
                 upper_bounded_margin(self, tel.spike_energy, self.spike_energy_max)]
        composite_margin == composite(margins)
        status == IF RLe(composite_margin, self.caution_lower) THEN "HardDeny"
                  ELSE IF RLt(composite_margin, self.caution_upper) THEN "Caution"
                  ELSE "Safe"
        salience == RMax(RSub(self.caution_upper, composite_margin), Zero)
    IN  [margins |-> margins, composite_margin |-> composite_margin,
         status |-> status, salience |-> salience]

\* EnvelopeConfig::evaluate
evaluate(self, tel) ==
    LET margins ==
            [mech_density_margin |-> mech_density_margin(self, tel.mech_density),
             interface_coherence_margin |->
                 interface_coherence_margin(self, tel.interface_coherence),
             em_field_margin |->
                 upper_bounded_margin(self, tel.em_field, self.em_field_max),
             thermal_margin |->
                 upper_bounded_margin(self, tel.thermal_load, self.thermal_max),
             inflammation_margin |->
                 upper_bounded_margin(self, tel.inflammation, self.inflammation_max),
             spike_energy_margin |->
                 upper_bounded_margin(self, tel.spike_energy, self.spike_energy_max)]
        composite_margin == composite(margins)
        status == IF RLt(composite_margin, self.caution_lower) THEN "HardDeny"
                  ELSE IF RLt(composite_margin, self.caution_upper) THEN "Caution"
                  ELSE "Safe"
        salience == RMax(RSub(self.caution_upper, composite_margin), Zero)
    IN  [margins |-> margins, composite_margin |-> composite_margin,
         status |-> status, salience |-> salience]

\* A config has been built; nothing evaluated yet.
InitEnvelope ==
    /\ config \in {Some(c) : c \in ConfigSamples}
    /\ telemetry = Idle
    /\ evaluation = Idle
    /\ map = Idle
    /\ request = NoRequest
    /\ outcome = NoOutcome
    /\ IdleGuard /\ IdleAuth /\ IdleScalar /\ IdleAggregate /\ IdleId
    /\ IdleApi /\ IdleRegistry /\ IdleFpic

\* A caller evaluates one telemetry sample against the config.
Evaluate ==
    /\ evaluation = Idle
    /\ \E t \in InterfaceTelemetry \cup {BoundTelemetry(Unwrap(config))} :
        /\ telemetry' = Some(t)
        /\ evaluation' = Some(evaluate(Unwrap(config), t))
    /\ UNCHANGED <<config, gateVars, guardVars, authVars, scalarVars, aggVars, idVars, apiVars, registryVars, fpicVars>>

NextEnvelope == Evaluate

SpecEnvelope == InitEnvelope /\ [][NextEnvelope]_vars

----------------------------------------------------------------------------
(* facecloud-core: the guard kernel *)

\* Identifiers Uuid::new_v4 may return.
Uuids == {"uuid-1", "uuid-2"}

\* GuardKernel { config }
GuardKernel(cfg) == [config |-> cfg]

\* GuardKernel::evaluate with the Safe and Caution templates exchanged.
GuardKernel_evaluate_swapped(self, tel, id) ==
    LET eval == evaluate(self.config, tel)
        pair == CASE eval.status = "Caution" ->
                        <<"Within safety envelope.",
                          "Maintain current parameters; continue monitoring.">>
                  [] eval.status = "Safe" ->
                        <<"CAUTION_SCALE_THRESHOLD_APPROACHED",
                          "Do not increase integration density or field intensity; prefer down-scaling or simulations only.">>
                  [] eval.status = "HardDeny" ->
                        <<"HARD_DENY: envelope breached.",
                          "Reduce load, density, and exposure in models; consult safety governance before any further scaling.">>
    IN  [id |-> id, evaluation |-> eval, message |-> pair[1],
         recommended_action |-> pair[2]]

\* GuardKernel::evaluate; id is the value Uuid::new_v4 returned.
GuardKernel_evaluate(self, tel, id) ==
    LET eval == evaluate(self.config, tel)
        pair == CASE eval.status = "Safe" ->
                        <<"Within safety envelope.",
                          "Maintain current parameters; continue monitoring.">>
                  [] eval.status = "Caution" ->
                        <<"CAUTION_SCALE_THRESHOLD_APPROACHED",
                          "Do not increase integration density or field intensity; prefer down-scaling or simulations only.">>
                  [] eval.status = "HardDeny" ->
                        <<"HARD_DENY: envelope breached.",
                          "Reduce load, density, and exposure in models; consult safety governance before any further scaling.">>
    IN  [id |-> id, evaluation |-> eval, message |-> pair[1],
         recommended_action |-> pair[2]]

\* A kernel has been built around a config; nothing evaluated yet.
InitGuard ==
    /\ config \in {Some(c) : c \in ConfigSamples}
    /\ telemetry = Idle
    /\ evaluation = Idle
    /\ recommendation = Idle
    /\ IdleGate /\ IdleAuth /\ IdleScalar /\ IdleAggregate /\ IdleId
    /\ IdleApi /\ IdleRegistry /\ IdleFpic

\* A caller asks the kernel for a recommendation on one telemetry sample.
GuardEvaluate ==
    /\ recommendation = Idle
    /\ \E t \in InterfaceTelemetry \cup {BoundTelemetry(Unwrap(config))}, id \in Uuids :
        /\ telemetry' = Some(t)
        /\ recommendation' = Some(GuardKernel_evaluate(GuardKernel(Unwrap(config)), t, id))
    /\ UNCHANGED <<config, evaluation, gateVars, authVars, scalarVars, aggVars, idVars, apiVars, registryVars, fpicVars>>

NextGuard == GuardEvaluate

SpecGuard == InitGuard /\ [][NextGuard]_vars

----------------------------------------------------------------------------
(* facecloud-dna-auth: multi-factor decision and access-policy verdict *)

\* Confidence values of a DNA-like factor, around the 0.9 threshold.
Confidences == {Zero, Rat(1, 2), Rat(89, 100), Rat(9, 10), Rat(19, 20), One}

DnaFactor ==
    [id : {"uuid-1"}, hash_reference : {"dna-ref-placeholder"}, confidence : Confidences]

MultiLayerContext ==
    [knowledge : [present : BOOLEAN], possession : [present : BOOLEAN],
     dna : {None} \cup {Some(f) : f \in DnaFactor}]

AuthDecision == {"Deny", "RequireAdditionalFactors", "Allow"}

AllowExplanation == "All three layers satisfied (knowledge, possession, DNA-like factor)."

RequireExplanation == "Knowledge and possession present; DNA-like factor insufficient or missing."

DenyExplanation == "Authentication factors incomplete; access denied by policy."

\* AuthEvaluation is a public struct: any decision with any explanation.
AuthEvaluation ==
    [decision : AuthDecision,
     explanation : {AllowExplanation, RequireExplanation, DenyExplanation}]

\* evaluate_mfa with the confidence test > 0.9.
evaluate_mfa_strict(c) ==
    LET has_knowledge == c.knowledge.present
        has_possession == c.possession.present
        dna_ok == IF c.dna = None THEN FALSE
                  ELSE RGt(Unwrap(c.dna).confidence, Rat(9, 10))
        decision == IF has_knowledge /\ has_possession /\ dna_ok THEN "Allow"
                    ELSE IF has_knowledge /\ has_possession /\ ~dna_ok
                    THEN "RequireAdditionalFactors"
                    ELSE "Deny"
        explanation == CASE decision = "Allow" -> AllowExplanation
                         [] decision = "RequireAdditionalFactors" -> RequireExplanation
                         [] decision = "Deny" -> DenyExplanation
    IN  [decision |-> decision, explanation |-> explanation]

\* evaluate_mfa
evaluate_mfa(c) ==
    LET has_knowledge == c.knowledge.present
        has_possession == c.possession.present
        dna_ok == IF c.dna = None THEN FALSE
                  ELSE RGe(Unwrap(c.dna).confidence, Rat(9, 10))
        decision == IF has_knowledge /\ has_possession /\ dna_ok THEN "Allow"
                    ELSE IF has_knowledge /\ has_possession /\ ~dna_ok
                    THEN "RequireAdditionalFactors"
                    ELSE "Deny"
        explanation == CASE decision = "Allow" -> AllowExplanation
                         [] decision = "RequireAdditionalFactors" -> RequireExplanation
                         [] decision = "Deny" -> DenyExplanation
    IN  [decision |-> decision, explanation |-> explanation]

ComplianceFlags == [gdpr : BOOLEAN, iso27001 : BOOLEAN, soc2 : BOOLEAN]

AccessPolicy ==
    [role_based_access : BOOLEAN, access_logging : BOOLEAN,
     data_minimization : BOOLEAN, lawful_processing : BOOLEAN,
     compliance : ComplianceFlags]

\* AccessPolicy::default
AccessPolicy_default ==
    [role_based_access |-> TRUE, access_logging |-> TRUE,
     data_minimization |-> TRUE, lawful_processing |-> TRUE,
     compliance |-> [gdpr |-> TRUE, iso27001 |-> TRUE, soc2 |-> TRUE]]

\* evaluate_policy with the four policy flags folded into allowed.
evaluate_policy_flags_deny(a, pol) ==
    LET first == CASE a.decision = "Allow" -> <<>>
                   [] a.decision = "RequireAdditionalFactors" ->
                        <<"Additional authentication factors required.">>
                   [] a.decision = "Deny" -> <<"Authentication decision = Deny.">>
        allowed == /\ a.decision = "Allow"
                   /\ pol.role_based_access /\ pol.access_logging
                   /\ pol.data_minimization /\ pol.lawful_processing
        reasons ==
            first
            \o (IF ~pol.role_based_access
                THEN <<"Role-based access control disabled; policy expects RBAC.">>
                ELSE <<>>)
            \o (IF ~pol.access_logging
                THEN <<"Access logging disabled; policy expects full audit trail.">>
                ELSE <<>>)
            \o (IF ~pol.data_minimization
                THEN <<"Data minimization not enforced.">> ELSE <<>>)
            \o (IF ~pol.lawful_processing
                THEN <<"Lawful processing flag is false.">> ELSE <<>>)
    IN  [allowed |-> allowed, reasons |-> reasons]

\* evaluate_policy also reporting a false gdpr compliance flag.
evaluate_policy_gdpr_reason(a, pol) ==
    LET first == CASE a.decision = "Allow" -> <<>>
                   [] a.decision = "RequireAdditionalFactors" ->
                        <<"Additional authentication factors required.">>
                   [] a.decision = "Deny" -> <<"Authentication decision = Deny.">>
        allowed == a.decision = "Allow"
        reasons ==
            first
            \o (IF ~pol.role_based_access
                THEN <<"Role-based access control disabled; policy expects RBAC.">>
                ELSE <<>>)
            \o (IF ~pol.access_logging
                THEN <<"Access logging disabled; policy expects full audit trail.">>
                ELSE <<>>)
            \o (IF ~pol.data_minimization
                THEN <<"Data minimization not enforced.">> ELSE <<>>)
            \o (IF ~pol.lawful_processing
                THEN <<"Lawful processing flag is false.">> ELSE <<>>)
            \o (IF ~pol.compliance.gdpr
                THEN <<"GDPR compliance flag is false.">> ELSE <<>>)
    IN  [allowed |-> allowed, reasons |-> reasons]

\* evaluate_policy
evaluate_policy(a, pol) ==
    LET first == CASE a.decision = "Allow" -> <<>>
                   [] a.decision = "RequireAdditionalFactors" ->
                        <<"Additional authentication factors required.">>
                   [] a.decision = "Deny" -> <<"Authentication decision = Deny.">>
        allowed == a.decision = "Allow"
        reasons ==
            first
            \o (IF ~pol.role_based_access
                THEN <<"Role-based access control disabled; policy expects RBAC.">>
                ELSE <<>>)
            \o (IF ~pol.access_logging
                THEN <<"Access logging disabled; policy expects full audit trail.">>
                ELSE <<>>)
            \o (IF ~pol.data_minimization
                THEN <<"Data minimization not enforced.">> ELSE <<>>)
            \o (IF ~pol.lawful_processing
                THEN <<"Lawful processing flag is false.">> ELSE <<>>)
    IN  [allowed |-> allowed, reasons |-> reasons]

\* A caller holds an authentication context; nothing decided yet.
InitAuth ==
    /\ ctx \in {Some(c) : c \in MultiLayerContext}
    /\ auth = Idle
    /\ policyIn = Idle
    /\ verdict = Idle
    /\ IdleGate /\ IdleEnvelope /\ IdleGuard /\ IdleScalar /\ IdleAggregate /\ IdleId
    /\ IdleApi /\ IdleRegistry /\ IdleFpic

\* The caller runs the multi-factor decision on its context.
EvaluateMfa ==
    /\ auth = Idle
    /\ auth' = Some(evaluate_mfa(Unwrap(ctx)))
    /\ UNCHANGED <<ctx, policyIn, verdict, gateVars, envVars, guardVars, scalarVars, aggVars, idVars, apiVars, registryVars, fpicVars>>

\* A caller folds an authentication evaluation with a policy.
EvaluatePolicy ==
    /\ verdict = Idle
    /\ \E a \in AuthEvaluation, pol \in AccessPolicy :
        /\ policyIn' = Some([auth |-> a, policy |-> pol])
        /\ verdict' = Some(evaluate_policy(a, pol))
    /\ UNCHANGED <<ctx, auth, gateVars, envVars, guardVars, scalarVars, aggVars, idVars, apiVars, registryVars, fpicVars>>

NextAuth == EvaluateMfa \/ EvaluatePolicy

SpecAuth == InitAuth /\ [][NextAuth]_vars

----------------------------------------------------------------------------
(* Validated scalars: Score (indigenous-eco-corridor-map) and EcoScalar *)

\* f32 values handed to the constructors, in and out of [0, 1].
RawScalars == {Rat(n, ScalarDen) : n \in -ScalarDen..(2 * ScalarDen)}

\* Score::new: Ok(value) exactly for 0.0 <= value <= 1.0.
Score_new(value) ==
    IF ~RangeContains(Zero, One, value)
    THEN [ok |-> FALSE, err |-> "Score must be within [0.0, 1.0]"]
    ELSE [ok |-> TRUE, value |-> value]

\* A caller holds a raw value.
InitScalar ==
    /\ scalarIn \in {Some(v) : v \in RawScalars}
    /\ scalarOut = Idle
    /\ IdleGate /\ IdleEnvelope /\ IdleGuard /\ IdleAuth /\ IdleAggregate /\ IdleId
    /\ IdleApi /\ IdleRegistry /\ IdleFpic

\* The caller builds a Score from it.
NewScore ==
    /\ scalarOut = Idle
    /\ scalarOut' = Some([type |-> "Score", result |-> Score_new(Unwrap(scalarIn))])
    /\ UNCHANGED <<scalarIn, gateVars, envVars, guardVars, authVars, aggVars, idVars, apiVars, registryVars, fpicVars>>

\* The caller builds an EcoScalar from it.
NewEcoScalar ==
    /\ scalarOut = Idle
    /\ scalarOut' = Some([type |-> "EcoScalar", result |-> EcoScalar_new(Unwrap(scalarIn))])
    /\ UNCHANGED <<scalarIn, gateVars, envVars, guardVars, authVars, aggVars, idVars, apiVars, registryVars, fpicVars>>

NextScalar == NewScore \/ NewEcoScalar

SpecScalar == InitScalar /\ [][NextScalar]_vars

----------------------------------------------------------------------------
(* Aggregate scores of the three metrics bundles *)

\* The Scores / EcoScalars a bundle is built from.
ComponentScores == {Rat(n, AggDen) : n \in 0..AggDen}

\* Values written into the public f32 fields of the morpheus bundle.
RawComponents == {Rat(-1, 2), Zero, Rat(1, 2), One, Rat(3, 2)}

\* iter().sum::<f32>()
RECURSIVE Sum(_)
Sum(seq) == IF seq = <<>> THEN Zero ELSE RAdd(Sum(SubSeq(seq, 1, Len(seq) - 1)), seq[Len(seq)])

\* EnvironmentalMetrics { soil, water, microbiome } from its nine Scores.
EnvironmentalMetrics(c) ==
    [soil |-> [fertility |-> c[1], erosion_risk |-> c[2], contamination |-> c[3]],
     water |-> [quality |-> c[4], flow_resilience |-> c[5],
                ecological_flow_support |-> c[6]],
     microbiome |-> [diversity |-> c[7], keystone_presence |-> c[8],
                     disturbance_resilience |-> c[9]]]

\* EnvironmentalMetrics::aggregate_score dividing by one less than the
\* number of components.
EnvironmentalMetrics_aggregate_score_short(self) ==
    LET components ==
            <<self.soil.fertility, self.soil.erosion_risk, self.soil.contamination,
              self.water.quality, self.water.flow_resilience,
              self.water.ecological_flow_support,
              self.microbiome.diversity, self.microbiome.keystone_presence,
              self.microbiome.disturbance_resilience>>
    IN  RDiv(Sum(components), Rat(Len(components) - 1, 1))

\* EnvironmentalMetrics::aggregate_score: Score(mean), not re-validated.
EnvironmentalMetrics_aggregate_score(self) ==
    LET components ==
            <<self.soil.fertility, self.soil.erosion_risk, self.soil.contamination,
              self.water.quality, self.water.flow_resilience,
              self.water.ecological_flow_support,
              self.microbiome.diversity, self.microbiome.keystone_presence,
              self.microbiome.disturbance_resilience>>
    IN  RDiv(Sum(components), Rat(Len(components), 1))

\* clamp01 of morpheus EcoImpactMetrics::new
clamp01(x) == IF RLt(x, Zero) THEN Zero ELSE IF RGt(x, One) THEN One ELSE x

\* morpheus EcoImpactMetrics::new
EcoImpactMetrics_new(soil, water, micro, bio) ==
    [soil_score |-> clamp01(soil), water_score |-> clamp01(water),
     microbiome_score |-> clamp01(micro), biodiversity_score |-> clamp01(bio)]

\* morpheus EcoImpactMetrics::aggregate
EcoImpactMetrics_aggregate(self) ==
    RDiv(RAdd(RAdd(RAdd(self.soil_score, self.water_score), self.microbiome_score),
              self.biodiversity_score), Rat(4, 1))

\* The bundles a caller can hold, each with the list of its components.
Bundles ==
    {[type |-> "EcoImpactMetrics", value |-> m,
      components |-> <<m.soil_health, m.water_quality, m.microbiome_diversity,
                       m.corridor_resilience>>] :
        m \in EcoMetricsSamples \cup
              {Metrics(a, b, c, e) : a \in ComponentScores, b \in ComponentScores,
                                     c \in ComponentScores, e \in ComponentScores}}
    \cup
    {[type |-> "EnvironmentalMetrics", value |-> EnvironmentalMetrics(c),
      components |-> c] : c \in [1..9 -> ComponentScores]}
    \cup
    {[type |-> "morpheus::EcoImpactMetrics", value |-> m,
      components |-> <<m.soil_score, m.water_score, m.microbiome_score,
                       m.biodiversity_score>>] :
        m \in {EcoImpactMetrics_new(a, b, c, e) :
                    a \in RawComponents, b \in RawComponents,
                    c \in RawComponents, e \in RawComponents}
              \cup [soil_score : RawComponents, water_score : RawComponents,
                    microbiome_score : RawComponents, biodiversity_score : RawComponents]}

\* A caller holds a metrics bundle.
InitAggregate ==
    /\ bundle \in {Some(b) : b \in Bundles}
    /\ aggResult = Idle
    /\ IdleGate /\ IdleEnvelope /\ IdleGuard /\ IdleAuth /\ IdleScalar /\ IdleId
    /\ IdleApi /\ IdleRegistry /\ IdleFpic

\* eco-corridor-core: EcoImpactMetrics::aggregate_score
AggregateEcoImpact ==
    /\ aggResult = Idle
    /\ Unwrap(bundle).type = "EcoImpactMetrics"
    /\ aggResult' = Some(aggregate_score(Unwrap(bundle).value))
    /\ UNCHANGED <<bundle, gateVars, envVars, guardVars, authVars, scalarVars, idVars, apiVars, registryVars, fpicVars>>

\* indigenous-eco-corridor-map: EnvironmentalMetrics::aggregate_score
AggregateEnvironmental ==
    /\ aggResult = Idle
    /\ Unwrap(bundle).type = "EnvironmentalMetrics"
    /\ aggResult' = Some(EnvironmentalMetrics_aggregate_score(Unwrap(bundle).value))
    /\ UNCHANGED <<bundle, gateVars, envVars, guardVars, authVars, scalarVars, idVars, apiVars, registryVars, fpicVars>>

\* morpheus eco-corridor-core: EcoImpactMetrics::aggregate
AggregateMorpheus ==
    /\ aggResult = Idle
    /\ Unwrap(bundle).type = "morpheus::EcoImpactMetrics"
    /\ aggResult' = Some(EcoImpactMetrics_aggregate(Unwrap(bundle).value))
    /\ UNCHANGED <<bundle, gateVars, envVars, guardVars, authVars, scalarVars, idVars, apiVars, registryVars, fpicVars>>

NextAggregate == AggregateEcoImpact \/ AggregateEnvironmental \/ AggregateMorpheus

SpecAggregate == InitAggregate /\ [][NextAggregate]_vars

----------------------------------------------------------------------------
(* Corridor identifiers of the three corridor crates *)

\* Characters of the candidate identifiers: a blank, the DID separator and
\* a letter.
IdChars == {" ", ":", "a"}

\* Strings, as sequences of characters.
IdStrings == UNION {[1..n -> IdChars] : n \in 0..MaxIdLen}

\* str::trim
RECURSIVE trim(_)
trim(str) ==
    IF str = <<>> THEN str
    ELSE IF Head(str) = " " THEN trim(Tail(str))
    ELSE IF str[Len(str)] = " " THEN trim(SubSeq(str, 1, Len(str) - 1))
    ELSE str

\* str::contains(':')
contains_colon(str) == \E i \in 1..Len(str) : str[i] = ":"

\* eco-corridor-core: CorridorId::from_str
CorridorId_from_str(value) ==
    LET trimmed == trim(value)
    IN  IF trimmed = <<>>
        THEN [ok |-> FALSE, err |-> "CorridorId must not be empty"]
        ELSE IF ~contains_colon(trimmed)
        THEN [ok |-> FALSE, err |-> "CorridorId must contain a DID-style prefix (e.g. did:...)"]
        ELSE [ok |-> TRUE, value |-> trimmed]

\* indigenous-eco-corridor-map: CorridorId::new
CorridorId_new(id) ==
    LET t == trim(id)
    IN  IF t = <<>>
        THEN [ok |-> FALSE, err |-> "CorridorId must be non-empty"]
        ELSE [ok |-> TRUE, value |-> t]

\* morpheus eco-corridor-core: CorridorId::new; a failed assert! panics and
\* no value is returned.
morpheus_CorridorId_new(id) ==
    IF trim(id) = <<>>
    THEN [ok |-> FALSE, err |-> "CorridorId must be non-empty and resolvable (no-corridor, no-build invariant)."]
    ELSE [ok |-> TRUE, value |-> id]

\* morpheus eco-corridor-core: pub struct CorridorId(pub String), built as
\* a tuple-struct literal or by the derived Deserialize.
morpheus_CorridorId(str) == [ok |-> TRUE, value |-> str]

\* A caller holds a candidate string.
InitId ==
    /\ idIn \in {Some(str) : str \in IdStrings}
    /\ idOut = Idle
    /\ IdleGate /\ IdleEnvelope /\ IdleGuard /\ IdleAuth /\ IdleScalar /\ IdleAggregate
    /\ IdleApi /\ IdleRegistry /\ IdleFpic

FromStr ==
    /\ idOut = Idle
    /\ idOut' = Some([type |-> "from_str", result |-> CorridorId_from_str(Unwrap(idIn))])
    /\ UNCHANGED <<idIn, gateVars, envVars, guardVars, authVars, scalarVars, aggVars, apiVars, registryVars, fpicVars>>

NewCorridorId ==
    /\ idOut = Idle
    /\ idOut' = Some([type |-> "new", result |-> CorridorId_new(Unwrap(idIn))])
    /\ UNCHANGED <<idIn, gateVars, envVars, guardVars, authVars, scalarVars, aggVars, apiVars, registryVars, fpicVars>>

NewMorpheusCorridorId ==
    /\ idOut = Idle
    /\ idOut' = Some([type |-> "morpheus::new", result |-> morpheus_CorridorId_new(Unwrap(idIn))])
    /\ UNCHANGED <<idIn, gateVars, envVars, guardVars, authVars, scalarVars, aggVars, apiVars, registryVars, fpicVars>>

MorpheusCorridorIdLiteral ==
    /\ idOut = Idle
    /\ idOut' = Some([type |-> "morpheus::literal", result |-> morpheus_CorridorId(Unwrap(idIn))])
    /\ UNCHANGED <<idIn, gateVars, envVars, guardVars, authVars, scalarVars, aggVars, apiVars, registryVars, fpicVars>>

NextId == FromStr \/ NewCorridorId \/ NewMorpheusCorridorId \/ MorpheusCorridorIdLiteral

SpecId == InitId /\ [][NextId]_vars

----------------------------------------------------------------------------
(* Concurrent callers: the /evaluate/envelope route of facecloud-api and   *)
(* callers of the precondition gate on one corridor record                 *)

Callers == 1..NumCallers

\* SafetyMetrics::new: the gauge and both counters start at zero.
SafetyMetrics_new == [last_composite_margin |-> 0, caution_total |-> 0, hard_deny_total |-> 0]

\* observe_status counting a HardDeny as a Caution.
observe_status_deny_as_caution(self, status, composite_margin) ==
    [last_composite_margin |-> AsI64(RMul(composite_margin, Rat(100, 1))),
     caution_total |-> IF status \in {"Caution", "HardDeny"} THEN self.caution_total + 1
                       ELSE self.caution_total,
     hard_deny_total |-> self.hard_deny_total]

\* SafetyMetrics::observe_status
observe_status(self, status, composite_margin) ==
    [last_composite_margin |-> AsI64(RMul(composite_margin, Rat(100, 1))),
     caution_total |-> IF status = "Caution" THEN self.caution_total + 1
                       ELSE self.caution_total,
     hard_deny_total |-> IF status = "HardDeny" THEN self.hard_deny_total + 1
                         ELSE self.hard_deny_total]

\* Telemetry posted to /evaluate/envelope: a Safe sample (composite 5/4),
\* the sample on the default bounds (composite 1), a Caution sample with
\* composite 17/16 and a HardDeny sample with composite 2/3.
ApiTelemetry ==
    LET calm == [mech_density |-> Rat(1, 2), interface_coherence |-> One,
                 em_field |-> Rat(1, 2), thermal_load |-> Rat(1, 2),
                 inflammation |-> Rat(1, 2), spike_energy |-> Rat(1, 2)]
    IN  {calm, BoundTelemetry(EnvelopeConfig_default),
         [calm EXCEPT !.interface_coherence = Rat(17, 20)],
         [calm EXCEPT !.mech_density = Rat(3, 2)]}

\* Requests put to the gate on the shared corridor record: one for the
\* record's corridor, one for another corridor, one high-impact.
GateRequests ==
    {CorridorActionRequest_new("did:corridor:a", Rat(1, 2), FALSE, FALSE, FALSE, FALSE).value,
     CorridorActionRequest_new("did:corridor:b", Rat(1, 2), FALSE, FALSE, FALSE, FALSE).value,
     CorridorActionRequest_new("did:corridor:a", Rat(1, 2), TRUE, TRUE, FALSE, FALSE).value}

\* The corridor records the callers share: with a granted consent and no
\* flags, and without consent under the fear/pain flag.
SharedRecords ==
    {IndigenousEcoCorridorMap_new("did:corridor:a", Metrics(Rat(4, 5), Rat(7, 10), Rat(9, 10), Rat(17, 20)),
        Some([issuer_did |-> "did:council:x", subject_corridor_id |-> "did:corridor:a",
              status |-> "Granted", issued_at |-> 1, revoked_at |-> None,
              signature_hex |-> "deadbeef"]), <<>>),
     IndigenousEcoCorridorMap_new("did:corridor:a", Metrics(Rat(4, 5), Rat(7, 10), Rat(9, 10), Rat(17, 20)),
        None, <<"ForbidFearPainCoercion">>)}

\* A caller before its first step.
NewCallers ==
    {[kind |-> "envelope", input |-> t, pc |-> "start", result |-> None] : t \in ApiTelemetry}
    \cup {[kind |-> "gate", input |-> r, pc |-> "start", result |-> None] : r \in GateRequests}

\* main: the kernel is built around the default config, the metrics are
\* fresh and shared behind a mutex; the callers hold their inputs.
InitApi ==
    /\ guard = GuardKernel(EnvelopeConfig_default)
    /\ record \in SharedRecords
    /\ metrics = SafetyMetrics_new
    /\ lock = None
    /\ lockOrder = <<>>
    /\ callers \in [Callers -> NewCallers]
    /\ IdleGate /\ IdleEnvelope /\ IdleGuard /\ IdleAuth /\ IdleScalar /\ IdleAggregate /\ IdleId
    /\ IdleRegistry /\ IdleFpic

\* evaluate_envelope: state.guard.evaluate(&telemetry)
EvaluateEnvelope(p) ==
    /\ callers[p].kind = "envelope"
    /\ callers[p].pc = "start"
    /\ \E id \in Uuids :
        callers' = [callers EXCEPT ![p].result = Some(GuardKernel_evaluate(guard, callers[p].input, id)),
                                   ![p].pc = "evaluated"]
    /\ UNCHANGED <<guard, record, metrics, lock, lockOrder>>
    /\ UNCHANGED <<gateVars, envVars, guardVars, authVars, scalarVars, aggVars, idVars, registryVars, fpicVars>>

\* evaluate_envelope: state.metrics.lock(), once the mutex is free
LockMetrics(p) ==
    /\ callers[p].pc = "evaluated"
    /\ lock = None
    /\ lock' = Some(p)
    /\ lockOrder' = Append(lockOrder, p)
    /\ callers' = [callers EXCEPT ![p].pc = "locked"]
    /\ UNCHANGED <<guard, record, metrics>>
    /\ UNCHANGED <<gateVars, envVars, guardVars, authVars, scalarVars, aggVars, idVars, registryVars, fpicVars>>

\* evaluate_envelope: metrics.observe_status(status, composite_margin)
ObserveStatus(p) ==
    /\ callers[p].pc = "locked"
    /\ lock = Some(p)
    /\ LET rec == Unwrap(callers[p].result)
       IN  metrics' = observe_status(metrics, rec.evaluation.status, rec.evaluation.composite_margin)
    /\ callers' = [callers EXCEPT ![p].pc = "observed"]
    /\ UNCHANGED <<guard, record, lock, lockOrder>>
    /\ UNCHANGED <<gateVars, envVars, guardVars, authVars, scalarVars, aggVars, idVars, registryVars, fpicVars>>

\* evaluate_envelope: the mutex guard is dropped and the response returned
UnlockMetrics(p) ==
    /\ callers[p].pc = "observed"
    /\ lock = Some(p)
    /\ lock' = None
    /\ callers' = [callers EXCEPT ![p].pc = "done"]
    /\ UNCHANGED <<guard, record, metrics, lockOrder>>
    /\ UNCHANGED <<gateVars, envVars, guardVars, authVars, scalarVars, aggVars, idVars, registryVars, fpicVars>>

\* A caller queries the gate on the shared corridor record.
CheckShared(p) ==
    /\ callers[p].kind = "gate"
    /\ callers[p].pc = "start"
    /\ callers' = [callers EXCEPT ![p].result = Some(check_preconditions(record, callers[p].input)),
                               ![p].pc = "done"]
    /\ UNCHANGED <<guard, record, metrics, lock, lockOrder>>
    /\ UNCHANGED <<gateVars, envVars, guardVars, authVars, scalarVars, aggVars, idVars, registryVars, fpicVars>>

NextApi ==
    \E p \in Callers :
        \/ EvaluateEnvelope(p)
        \/ LockMetrics(p)
        \/ ObserveStatus(p)
        \/ UnlockMetrics(p)
        \/ CheckShared(p)

SpecApi == InitApi /\ [][NextApi]_vars

----------------------------------------------------------------------------
(* indigenous-eco-corridor-map: the map of corridor records *)

\* CorridorId values that passed CorridorId::new.
RegistryIds == {"eco:desert:phoenix", "territory:nation-x:river-y"}

\* FpicStatus of the map crate.
FpicStatus ==
    {[tag |-> "Pending"],
     [tag |-> "Granted", at |-> 1, communities |-> <<"nation-x">>, terms_reference |-> "ledger:1"],
     [tag |-> "Withheld", at |-> 2, reason |-> "revoked"]}

\* FpicStatus::is_active_grant
is_active_grant(self) == self.tag = "Granted"

\* IndigenousEcoCorridor::has_active_fpic
has_active_fpic(self) == is_active_grant(self.fpic)

\* IndigenousEcoCorridor records: they differ in the id, the FPIC status
\* and the cultural notes.
IndigenousEcoCorridor ==
    {[descriptor |-> [id |-> i, kind |-> "River", name |-> "corridor", description |-> None],
      environmental |-> EnvironmentalMetrics([k \in 1..9 |-> One]),
      fpic |-> f,
      ids_scope |-> [contains_indigenous_data |-> TRUE, governed_by_ids_framework |-> TRUE,
                     governance_ref |-> None],
      neurorights |-> [non_actuating_required |-> TRUE, no_coercive_or_hidden_channels |-> TRUE,
                       discipline_signals_voluntary_only |-> TRUE, envelope_ref |-> None],
      cultural_notes |-> n] :
        i \in RegistryIds, f \in FpicStatus, n \in {None, Some("notes")}}

\* IndigenousEcoCorridor::id
IndigenousEcoCorridor_id(self) == self.descriptor.id

\* BTreeMap::new
BTreeMap_new == <<>>

\* BTreeMap::insert: the value stored under an equal key is replaced.
BTreeMap_insert(m, key, value) ==
    [k \in DOMAIN m \cup {key} |-> IF k = key THEN value ELSE m[k]]

\* upsert_corridor keeping the record already stored under the id.
upsert_corridor_keep_first(self, corridor) ==
    IF IndigenousEcoCorridor_id(corridor) \in DOMAIN self THEN self
    ELSE BTreeMap_insert(self, IndigenousEcoCorridor_id(corridor), corridor)

\* IndigenousEcoCorridorMap::upsert_corridor
upsert_corridor(self, corridor) ==
    BTreeMap_insert(self, IndigenousEcoCorridor_id(corridor), corridor)

\* IndigenousEcoCorridorMap::get
get(self, id) == IF id \in DOMAIN self THEN Some(self[id]) ELSE None

\* IndigenousEcoCorridorMap::ensure_exists
ensure_exists(self, id) ==
    IF id \in DOMAIN self THEN Ok
    ELSE Err(<<"CorridorId '", id, "' is not registered">>)

\* IndigenousEcoCorridorMap::new: an empty map.
InitRegistry ==
    /\ corridors = BTreeMap_new
    /\ history = <<>>
    /\ lookup = None
    /\ IdleGate /\ IdleEnvelope /\ IdleGuard /\ IdleAuth /\ IdleScalar /\ IdleAggregate /\ IdleId
    /\ IdleApi /\ IdleFpic

\* A registration process upserts a record; a reference handed out by an
\* earlier get does not outlive the call (&mut self).
UpsertCorridor ==
    /\ Len(history) < MaxUpserts
    /\ \E c \in IndigenousEcoCorridor :
        /\ corridors' = upsert_corridor(corridors, c)
        /\ history' = Append(history, c)
    /\ lookup' = None
    /\ UNCHANGED <<gateVars, envVars, guardVars, authVars, scalarVars, aggVars, idVars, apiVars, fpicVars>>

\* A reader looks a corridor up.
Get ==
    /\ \E id \in RegistryIds :
        lookup' = Some([op |-> "get", id |-> id, result |-> get(corridors, id)])
    /\ UNCHANGED <<corridors, history>>
    /\ UNCHANGED <<gateVars, envVars, guardVars, authVars, scalarVars, aggVars, idVars, apiVars, fpicVars>>

\* An overlay checks that a corridor id is registered.
EnsureExists ==
    /\ \E id \in RegistryIds :
        lookup' = Some([op |-> "ensure_exists", id |-> id, result |-> Some(ensure_exists(corridors, id))])
    /\ UNCHANGED <<corridors, history>>
    /\ UNCHANGED <<gateVars, envVars, guardVars, authVars, scalarVars, aggVars, idVars, apiVars, fpicVars>>

NextRegistry == UpsertCorridor \/ Get \/ EnsureExists

SpecRegistry == InitRegistry /\ [][NextRegistry]_vars

----------------------------------------------------------------------------
(* FPIC status in the corridor records of the map crate and of morpheus *)

\* FpicStatus of morpheus eco-corridor-core.
morpheus_FpicStatus ==
    {[tag |-> "Pending"],
     [tag |-> "Granted", consent_ref |-> "aln:shard:1"],
     [tag |-> "Withheld", reason |-> "withheld by council"]}

\* Eco-impact bundles of the morpheus records; their aggregates include
\* exactly 0.5 and exactly 0.8.
FpicEcoSamples ==
    {EcoImpactMetrics_new(a, b, c, e) :
        a \in {Zero, Rat(1, 2), Rat(4, 5), One}, b \in {Zero, Rat(1, 2), Rat(4, 5), One},
        c \in {Rat(1, 2), Rat(4, 5)}, e \in {Rat(1, 2), Rat(4, 5), One}}

\* NeurorightsConstraints::strict_floor
strict_floor ==
    [mental_privacy_protection |-> TRUE, forbid_coercive_channels |-> TRUE,
     forbid_downgrade_or_rollback |-> TRUE, discipline_personalized_and_noncoercive |-> TRUE]

\* IndigenousEcoCorridorRecord::new
IndigenousEcoCorridorRecord_new(corridor_id, eco_impact, fpic_status, neurorights, facecloud_ref) ==
    [corridor_id |-> corridor_id, eco_impact |-> eco_impact, fpic_status |-> fpic_status,
     neurorights |-> neurorights, facecloud_ref |-> facecloud_ref]

\* advisory_risk_label looking at the eco score before the FPIC status.
advisory_risk_label_score_first(self) ==
    LET eco == EcoImpactMetrics_aggregate(self.eco_impact)
    IN  IF RGe(eco, Rat(4, 5)) THEN "low_risk_observational"
        ELSE IF self.fpic_status.tag = "Withheld" THEN "blocked_fpic_withheld"
        ELSE IF self.fpic_status.tag = "Pending" THEN "hold_fpic_pending"
        ELSE IF RGe(eco, Rat(1, 2)) THEN "medium_risk_review"
        ELSE "high_risk_review"

\* IndigenousEcoCorridorRecord::advisory_risk_label
advisory_risk_label(self) ==
    LET eco == EcoImpactMetrics_aggregate(self.eco_impact)
    IN  IF self.fpic_status.tag = "Withheld" THEN "blocked_fpic_withheld"
        ELSE IF self.fpic_status.tag = "Pending" THEN "hold_fpic_pending"
        ELSE IF self.fpic_status.tag = "Granted" /\ RGe(eco, Rat(4, 5))
        THEN "low_risk_observational"
        ELSE IF self.fpic_status.tag = "Granted" /\ RGe(eco, Rat(1, 2))
        THEN "medium_risk_review"
        ELSE "high_risk_review"

\* A caller holds a corridor record of one of the two crates.
InitFpic ==
    /\ fpicIn \in {Some([type |-> "IndigenousEcoCorridorRecord",
                         value |-> IndigenousEcoCorridorRecord_new(
                                      "did:corridor:a", m, f, strict_floor, None)]) :
                        m \in FpicEcoSamples, f \in morpheus_FpicStatus}
                  \cup {Some([type |-> "IndigenousEcoCorridor", value |-> c]) :
                            c \in IndigenousEcoCorridor}
    /\ labelOut = Idle
    /\ IdleGate /\ IdleEnvelope /\ IdleGuard /\ IdleAuth /\ IdleScalar /\ IdleAggregate /\ IdleId
    /\ IdleApi /\ IdleRegistry

\* morpheus: record.advisory_risk_label()
AdvisoryRiskLabel ==
    /\ labelOut = Idle
    /\ Unwrap(fpicIn).type = "IndigenousEcoCorridorRecord"
    /\ labelOut' = Some([label |-> advisory_risk_label(Unwrap(fpicIn).value)])
    /\ UNCHANGED <<fpicIn, gateVars, envVars, guardVars, authVars, scalarVars, aggVars, idVars, apiVars, registryVars>>

\* map crate: corridor.has_active_fpic()
HasActiveFpic ==
    /\ labelOut = Idle
    /\ Unwrap(fpicIn).type = "IndigenousEcoCorridor"
    /\ labelOut' = Some([active |-> has_active_fpic(Unwrap(fpicIn).value)])
    /\ UNCHANGED <<fpicIn, gateVars, envVars, guardVars, authVars, scalarVars, aggVars, idVars, apiVars, registryVars>>

NextFpic == AdvisoryRiskLabel \/ HasActiveFpic

SpecFpic == InitFpic /\ [][NextFpic]_vars

----------------------------------------------------------------------------
(* Precondition gate: properties *)

\* A call has returned.
Checked == outcome # NoOutcome

Req == Unwrap(request)

Res == Unwrap(outcome)

Agg == aggregate_score(map.eco_metrics)

\* The corridor's flag list holds the flag somewhere.
HasFlag(flag) == flag \in {map.neurorights_flags[i] : i \in DOMAIN map.neurorights_flags}

\* The record holds a consent whose status is Granted and that has no
\* revocation timestamp.
ConsentGranted ==
    /\ map.fpic_ids_state # None
    /\ Unwrap(map.fpic_ids_state).status = "Granted"
    /\ Unwrap(map.fpic_ids_state).revoked_at = None

IdentityFails == Req.corridor_id # map.corridor_id

EcoFails == ~RLe(Req.required_min_eco_score, Agg)

ConsentFails == Req.high_impact /\ ~ConsentGranted

FearPainFails == Req.may_use_fear_pain_channels /\ HasFlag("ForbidFearPainCoercion")

InferenceFails == Req.may_infer_mental_state /\ HasFlag("NoCovertInference")

BeliefFails == Req.may_attempt_belief_shaping /\ HasFlag("NoMentalManipulation")

RightsFail == FearPainFails \/ InferenceFails \/ BeliefFails

\* C1: check_preconditions returns Ok exactly when the corridor ids are
\* equal, the required score is at most the aggregate (equality passes),
\* the request is not high-impact or the consent is effectively granted,
\* and no intent flag meets its neurorights flag; a high-impact request
\* without intent flags passes even if the corridor forbids all three.
C1_OkIffAllGuardsPass ==
    Checked =>
        /\ Res.ok <=> (~IdentityFails /\ ~EcoFails /\ ~ConsentFails /\ ~RightsFail)
        /\ ( /\ Req.high_impact /\ ~IdentityFails /\ ~EcoFails /\ ConsentGranted
             /\ ~Req.may_use_fear_pain_channels /\ ~Req.may_infer_mental_state
             /\ ~Req.may_attempt_belief_shaping
             => Res = Ok )

\* A high-impact request without intent flags passes in a corridor that
\* forbids all three channels, with the score exactly at the threshold.
C1_Witness ==
    /\ Checked /\ Res.ok /\ Req.high_impact
    /\ HasFlag("ForbidFearPainCoercion") /\ HasFlag("NoCovertInference")
    /\ HasFlag("NoMentalManipulation")
    /\ Req.required_min_eco_score = Agg

\* C2: the denial reason is that of the earliest failing guard in the order
\* identity, ecological threshold, consent, fear/pain, inference,
\* belief-shaping, whatever the later guards would say.
C2_EarliestFailingGuard ==
    Checked =>
        /\ IdentityFails => Res = Err(MismatchReason)
        /\ ~IdentityFails /\ EcoFails
            => Res = Err(EcoReason(Req.required_min_eco_score, Agg))
        /\ ~IdentityFails /\ ~EcoFails /\ ConsentFails
            => Res \in {Err(NoConsentReason), Err(NotGrantedReason)}
        /\ ~IdentityFails /\ ~EcoFails /\ ~ConsentFails /\ FearPainFails
            => Res = Err(FearPainReason)
        /\ ~IdentityFails /\ ~EcoFails /\ ~ConsentFails /\ ~FearPainFails
           /\ InferenceFails
            => Res = Err(InferenceReason)
        /\ ~IdentityFails /\ ~EcoFails /\ ~ConsentFails /\ ~FearPainFails
           /\ ~InferenceFails /\ BeliefFails
            => Res = Err(BeliefReason)

\* Consent, inference and belief-shaping all fail; the consent reason wins.
C2_Witness ==
    /\ Checked /\ ~IdentityFails /\ ~EcoFails
    /\ ConsentFails /\ InferenceFails /\ BeliefFails
    /\ Res \in {Err(NoConsentReason), Err(NotGrantedReason)}

\* C3: a request for another corridor is denied with the corridor-mismatch
\* reason whatever the other fields are.
C3_MismatchAlwaysDenied ==
    Checked /\ Req.corridor_id # map.corridor_id => Res = Err(MismatchReason)

\* A mismatching request whose score is also insufficient and whose
\* consent is also missing is still reported as a mismatch.
C3_Witness ==
    /\ Checked /\ Req.corridor_id # map.corridor_id
    /\ EcoFails /\ ConsentFails
    /\ Res = Err(MismatchReason)

\* C4: a high-impact request against a record without consent is always
\* denied; a request that is not high-impact is allowed without consent, or
\* with a pending or revoked one, when identity, threshold and rights pass.
C4_ConsentOnlyForHighImpact ==
    Checked =>
        /\ Req.high_impact /\ map.fpic_ids_state = None => ~Res.ok
        /\ ~Req.high_impact /\ ~ConsentGranted
           /\ ~IdentityFails /\ ~EcoFails /\ ~RightsFail
            => Res = Ok

\* A low-impact request passes although the record has no consent.
C4_Witness ==
    /\ Checked /\ ~Req.high_impact /\ map.fpic_ids_state = None /\ Res = Ok

\* C5: for a high-impact request that passes identity and threshold, a
\* consent that is Pending, Revoked or Granted with a revocation timestamp
\* gives the 'not granted or revoked' denial, and a Granted consent without
\* revocation timestamp passes the consent guard.
C5_EffectivelyGranted ==
    Checked /\ Req.high_impact /\ ~IdentityFails /\ ~EcoFails
            /\ map.fpic_ids_state # None =>
        LET vc == Unwrap(map.fpic_ids_state)
        IN  /\ (vc.status \in {"Pending", "Revoked"} \/ vc.revoked_at # None)
                => Res = Err(NotGrantedReason)
            /\ (vc.status = "Granted" /\ vc.revoked_at = None)
                => Res \notin {Err(NotGrantedReason), Err(NoConsentReason)}

\* A Granted consent carrying a revocation timestamp is refused.
C5_Witness ==
    /\ Checked /\ Req.high_impact /\ ~IdentityFails /\ ~EcoFails
    /\ map.fpic_ids_state # None
    /\ Unwrap(map.fpic_ids_state).status = "Granted"
    /\ Unwrap(map.fpic_ids_state).revoked_at # None
    /\ Res = Err(NotGrantedReason)

\* C6: once identity, threshold and consent pass, the request is denied
\* exactly when one of the three intent/flag pairings is true/true.
C6_RightsPairings ==
    Checked /\ ~IdentityFails /\ ~EcoFails /\ ~ConsentFails =>
        (~Res.ok <=>
            \/ Req.may_use_fear_pain_channels /\ HasFlag("ForbidFearPainCoercion")
            \/ Req.may_infer_mental_state /\ HasFlag("NoCovertInference")
            \/ Req.may_attempt_belief_shaping /\ HasFlag("NoMentalManipulation"))

\* An intent whose own flag is absent passes although the corridor carries
\* the two other flags, whose intents are false.
C6_Witness ==
    /\ Checked /\ Res = Ok
    /\ Req.may_infer_mental_state /\ ~HasFlag("NoCovertInference")
    /\ HasFlag("ForbidFearPainCoercion") /\ ~Req.may_use_fear_pain_channels
    /\ HasFlag("NoMentalManipulation") /\ ~Req.may_attempt_belief_shaping

\* The credentials that agree with a credential in status and in whether a
\* revocation timestamp is present: each of the other fields changed
\* alone, and all of them changed together.
ConsentVariants(vc) ==
    LET revoked == IF vc.revoked_at = None THEN None ELSE Some(3)
    IN  {[vc EXCEPT !.issuer_did = "did:council:y"],
         [vc EXCEPT !.subject_corridor_id = "did:corridor:elsewhere"],
         [vc EXCEPT !.issued_at = 5],
         [vc EXCEPT !.revoked_at = revoked],
         [vc EXCEPT !.signature_hex = "00"],
         [vc EXCEPT !.issuer_did = "did:council:y",
                    !.subject_corridor_id = "did:corridor:elsewhere",
                    !.issued_at = 5, !.revoked_at = revoked, !.signature_hex = "00"]}

\* C25: the result depends on the consent credential only through its
\* presence, its status and the presence of a revocation timestamp: the
\* same call on a record whose credential differs in issuer_did,
\* subject_corridor_id, issued_at, signature_hex or the value of revoked_at
\* returns the same result.
C25_ConsentFieldsIgnored ==
    (Checked /\ map.fpic_ids_state # None) =>
        \A vc \in ConsentVariants(Unwrap(map.fpic_ids_state)) :
            check_preconditions([map EXCEPT !.fpic_ids_state = Some(vc)], Req) = Res

\* A high-impact request authorized by a granted consent whose subject is
\* another corridor than the record's.
C25_Witness ==
    /\ Checked
    /\ Req.high_impact
    /\ map.fpic_ids_state # None
    /\ Unwrap(map.fpic_ids_state).status = "Granted"
    /\ Unwrap(map.fpic_ids_state).subject_corridor_id # map.corridor_id
    /\ Res = Ok

----------------------------------------------------------------------------
(* Safety envelope: properties *)

\* An evaluation has returned.
Evaluated == evaluation # Idle

Cfg == Unwrap(config)

Tel == Unwrap(telemetry)

Eval == Unwrap(evaluation)

MarginNames ==
    {"mech_density_margin", "interface_coherence_margin", "em_field_margin",
     "thermal_margin", "inflammation_margin", "spike_energy_margin"}

\* The five upper-bounded dimensions: reading, configured max, margin.
UpperBounded ==
    { <<Tel.mech_density, Cfg.mech_density_max, Eval.margins.mech_density_margin>>,
      <<Tel.em_field, Cfg.em_field_max, Eval.margins.em_field_margin>>,
      <<Tel.thermal_load, Cfg.thermal_max, Eval.margins.thermal_margin>>,
      <<Tel.inflammation, Cfg.inflammation_max, Eval.margins.inflammation_margin>>,
      <<Tel.spike_energy, Cfg.spike_energy_max, Eval.margins.spike_energy_margin>> }

\* C7: for every config and telemetry the status is HardDeny when
\* composite < caution_lower, Caution when caution_lower <= composite <
\* caution_upper, and Safe when composite >= caution_upper.
C7_StatusByComposite ==
    Evaluated =>
        LET c == Eval.composite_margin
        IN  /\ RLt(c, Cfg.caution_lower) => Eval.status = "HardDeny"
            /\ RLe(Cfg.caution_lower, c) /\ RLt(c, Cfg.caution_upper)
                => Eval.status = "Caution"
            /\ RGe(c, Cfg.caution_upper) => Eval.status = "Safe"

\* The classification of C7 on the configs whose caution band is ordered
\* (caution_lower <= caution_upper).
StatusByCompositeOrderedBand ==
    Evaluated /\ RLe(Cfg.caution_lower, Cfg.caution_upper) => C7_StatusByComposite

\* C8: the composite margin is the minimum of the six margins, so a single
\* margin below caution_lower gives HardDeny whatever the other five are.
C8_CompositeIsMinimum ==
    Evaluated =>
        /\ \E n \in MarginNames : Eval.composite_margin = Eval.margins[n]
        /\ \A n \in MarginNames : RLe(Eval.composite_margin, Eval.margins[n])
        /\ (\E n \in MarginNames : RLt(Eval.margins[n], Cfg.caution_lower))
            => Eval.status = "HardDeny"

\* Only the spike-energy margin is below caution_lower, the other five are
\* at or above caution_upper, and the verdict is HardDeny.
C8_Witness ==
    /\ Evaluated
    /\ RLt(Eval.margins.spike_energy_margin, Cfg.caution_lower)
    /\ \A n \in MarginNames \ {"spike_energy_margin"} :
            /\ RGe(Eval.margins[n], Cfg.caution_upper)
            /\ RGe(Eval.margins[n], Cfg.caution_lower)
    /\ Eval.status = "HardDeny"

\* C9: each of the five upper-bounded margins is max / value for a reading
\* > 0 and the constant 2.0 otherwise, whatever the configured max.
C9_UpperBoundedMargins ==
    Evaluated =>
        \A d \in UpperBounded :
            /\ RGt(d[1], Zero) => d[3] = RDiv(d[2], d[1])
            /\ ~RGt(d[1], Zero) => d[3] = Rat(2, 1)

\* What the code computes for C9's dimensions: max / value for a reading
\* > 0; for a reading <= 0 the constant 2.0 for mechanical density and the
\* configured max for the four others.
UpperBoundedMarginsAsCoded ==
    Evaluated =>
        /\ \A d \in UpperBounded : RGt(d[1], Zero) => d[3] = RDiv(d[2], d[1])
        /\ ~RGt(Tel.mech_density, Zero) => Eval.margins.mech_density_margin = Rat(2, 1)
        /\ \A d \in UpperBounded \ {<<Tel.mech_density, Cfg.mech_density_max,
                                      Eval.margins.mech_density_margin>>} :
                ~RGt(d[1], Zero) => d[3] = d[2]

\* C10: the coherence margin is value / interface_coherence_min for a
\* reading > 0 and 0 for a reading <= 0, so with caution_lower > 0 a
\* non-positive coherence reading gives HardDeny.
C10_CoherenceMargin ==
    Evaluated =>
        LET c == Tel.interface_coherence
            m == Eval.margins.interface_coherence_margin
        IN  /\ RGt(c, Zero) => m = RDiv(c, Cfg.interface_coherence_min)
            /\ RLe(c, Zero) => m = Zero
            /\ RLe(c, Zero) /\ RGt(Cfg.caution_lower, Zero) => Eval.status = "HardDeny"

\* A negative coherence reading with the five other margins at or above
\* caution_upper: margin 0 and HardDeny.
C10_Witness ==
    /\ Evaluated
    /\ RLt(Tel.interface_coherence, Zero)
    /\ RGt(Cfg.caution_lower, Zero)
    /\ Eval.margins.interface_coherence_margin = Zero
    /\ \A n \in MarginNames \ {"interface_coherence_margin"} :
            RGe(Eval.margins[n], Cfg.caution_upper)
    /\ Eval.status = "HardDeny"

\* C11: salience is max(0, caution_upper - composite_margin): never
\* negative, and zero whenever the status is Safe.
C11_Salience ==
    Evaluated =>
        LET diff == RSub(Cfg.caution_upper, Eval.composite_margin)
        IN  /\ Eval.salience = (IF diff.num > 0 THEN diff ELSE Zero)
            /\ Eval.salience.num >= 0
            /\ Eval.status = "Safe" => Eval.salience = Zero

\* A Safe evaluation whose composite is strictly above caution_upper, so
\* that the difference is negative and the salience is cut at zero.
C11_Witness ==
    /\ Evaluated /\ Eval.status = "Safe"
    /\ RGt(Eval.composite_margin, Cfg.caution_upper)
    /\ Eval.salience = Zero

\* C12: no config with caution_lower > caution_upper exists, so evaluate
\* never runs with caution_lower > caution_upper.
C12_BandOrderedWhenEvaluated ==
    Evaluated => RLe(Cfg.caution_lower, Cfg.caution_upper)

\* C13: under the default config, readings equal to the six bounds (five
\* maxima 1.0, coherence 0.8) give composite margin 1.0 and status Caution.
C13_AtBoundIsCaution ==
    ( /\ Evaluated
      /\ Cfg = EnvelopeConfig_default
      /\ Tel = [mech_density |-> One, interface_coherence |-> Rat(4, 5),
                em_field |-> One, thermal_load |-> One, inflammation |-> One,
                spike_energy |-> One] )
    => Eval.composite_margin = One /\ Eval.status = "Caution"

\* The default config has evaluated the at-bound telemetry.
C13_Witness ==
    /\ Evaluated
    /\ Cfg = EnvelopeConfig_default
    /\ Tel = BoundTelemetry(EnvelopeConfig_default)
    /\ Tel.interface_coherence = Rat(4, 5)
    /\ Eval.status = "Caution"

\* The upper-bounded dimensions: the reading, its configured max and its
\* margin, by field name.
UpperBoundedFields ==
    {<<"mech_density", "mech_density_max", "mech_density_margin">>,
     <<"em_field", "em_field_max", "em_field_margin">>,
     <<"thermal_load", "thermal_max", "thermal_margin">>,
     <<"inflammation", "inflammation_max", "inflammation_margin">>,
     <<"spike_energy", "spike_energy_max", "spike_energy_margin">>}

\* Statuses from worst to best.
StatusRank == [HardDeny |-> 0, Caution |-> 1, Safe |-> 2]

\* C27: for an upper-bounded dimension with a positive max, the margin of a
\* reading of exactly zero is at least the margin of any positive reading,
\* so the same telemetry with that reading lowered to zero has a composite
\* margin that is not lower and a status that is not worse.
C27_ZeroReadingIsMaximal ==
    Evaluated =>
        \A d \in UpperBoundedFields :
            (RGt(Cfg[d[2]], Zero) /\ RGt(Tel[d[1]], Zero)) =>
                LET zeroed == evaluate(Cfg, [Tel EXCEPT ![d[1]] = Zero])
                IN  /\ RGe(zeroed.margins[d[3]], Eval.margins[d[3]])
                    /\ RGe(zeroed.composite_margin, Eval.composite_margin)
                    /\ StatusRank[zeroed.status] >= StatusRank[Eval.status]

----------------------------------------------------------------------------
(* Guard kernel: properties *)

\* A recommendation has been returned.
Recommended == recommendation # Idle

Rec == Unwrap(recommendation)

\* The message and action the kernel attaches to each status.
Template ==
    [Safe |-> <<"Within safety envelope.",
                "Maintain current parameters; continue monitoring.">>,
     Caution |-> <<"CAUTION_SCALE_THRESHOLD_APPROACHED",
                   "Do not increase integration density or field intensity; prefer down-scaling or simulations only.">>,
     HardDeny |-> <<"HARD_DENY: envelope breached.",
                    "Reduce load, density, and exposure in models; consult safety governance before any further scaling.">>]

\* C14: the recommendation carries the config's evaluation of the
\* telemetry, and its message and action are the fixed pair of that
\* evaluation's status, a different pair for each of the three statuses.
C14_RecommendationByStatus ==
    Recommended =>
        /\ Rec.evaluation = evaluate(Cfg, Tel)
        /\ <<Rec.message, Rec.recommended_action>> = Template[Rec.evaluation.status]
        /\ \A a, b \in DOMAIN Template :
                a # b => Template[a][1] # Template[b][1] /\ Template[a][2] # Template[b][2]

\* A Caution recommendation carrying the caution template.
C14_Witness ==
    /\ Recommended
    /\ Rec.evaluation.status = "Caution"
    /\ Rec.message = "CAUTION_SCALE_THRESHOLD_APPROACHED"

----------------------------------------------------------------------------
(* Authentication and policy: properties *)

\* evaluate_mfa has returned.
Decided == auth # Idle

Ctx == Unwrap(ctx)

Auth == Unwrap(auth)

\* A DNA-like factor is present with confidence at least 9/10.
HighConfidence ==
    /\ Ctx.dna # None
    /\ 10 * Unwrap(Ctx.dna).confidence.num >= 9 * Unwrap(Ctx.dna).confidence.den

\* C15: Allow exactly when knowledge, possession and a factor of confidence
\* >= 0.9 are present; RequireAdditionalFactors exactly when knowledge and
\* possession are present and the factor is absent or below 0.9; Deny
\* otherwise.  An absent factor never yields Allow.
C15_MfaDecisionTable ==
    Decided =>
        LET k == Ctx.knowledge.present
            p == Ctx.possession.present
        IN  /\ Auth.decision = "Allow" <=> (k /\ p /\ HighConfidence)
            /\ Auth.decision = "RequireAdditionalFactors" <=> (k /\ p /\ ~HighConfidence)
            /\ Auth.decision = "Deny" <=> ~(k /\ p)
            /\ Ctx.dna = None => Auth.decision # "Allow"

\* A factor of confidence exactly 0.9 is enough for Allow.
C15_Witness ==
    /\ Decided
    /\ Ctx.dna # None
    /\ Unwrap(Ctx.dna).confidence = Rat(9, 10)
    /\ Auth.decision = "Allow"

\* evaluate_policy has returned.
Judged == verdict # Idle

PolicyAuth == Unwrap(policyIn).auth

Policy == Unwrap(policyIn).policy

Verdict == Unwrap(verdict)

\* C16: allowed is true exactly when the decision is Allow, whatever the
\* four policy flags are.
C16_AllowedIffAllow ==
    Judged => (Verdict.allowed <=> PolicyAuth.decision = "Allow")

\* An Allow decision stays allowed with all four policy flags false.
C16_Witness ==
    /\ Judged
    /\ PolicyAuth.decision = "Allow"
    /\ ~Policy.role_based_access /\ ~Policy.access_logging
    /\ ~Policy.data_minimization /\ ~Policy.lawful_processing
    /\ Verdict.allowed

\* The reason pushed for each non-Allow decision.
DecisionReason ==
    [RequireAdditionalFactors |-> "Additional authentication factors required.",
     Deny |-> "Authentication decision = Deny."]

\* The four policy flags in the order they are examined, each with the
\* reason pushed when it is false.
FlagReasons ==
    <<[flag |-> "role_based_access",
       text |-> "Role-based access control disabled; policy expects RBAC."],
      [flag |-> "access_logging",
       text |-> "Access logging disabled; policy expects full audit trail."],
      [flag |-> "data_minimization", text |-> "Data minimization not enforced."],
      [flag |-> "lawful_processing", text |-> "Lawful processing flag is false."]>>

\* The reasons of the false flags of a policy, in order.
FalseFlagReasons(pol) ==
    LET IsFalse(e) == ~pol[e.flag]
        sel == SelectSeq(FlagReasons, IsFalse)
    IN  [i \in 1..Len(sel) |-> sel[i].text]

\* C26: reasons is the entry of a non-Allow decision, when there is one,
\* followed by one entry per false flag among role_based_access,
\* access_logging, data_minimization, lawful_processing in that order, and
\* nothing else; the gdpr, iso27001 and soc2 flags change neither allowed
\* nor reasons; reasons is empty exactly for Allow with all four flags true.
C26_ReasonsList ==
    Judged =>
        LET r == Verdict.reasons
            k == IF PolicyAuth.decision = "Allow" THEN 0 ELSE 1
        IN  /\ Len(r) >= k
            /\ k = 1 => r[1] = DecisionReason[PolicyAuth.decision]
            /\ SubSeq(r, k + 1, Len(r)) = FalseFlagReasons(Policy)
            /\ \A cf \in ComplianceFlags :
                    evaluate_policy(PolicyAuth, [Policy EXCEPT !.compliance = cf]) = Verdict
            /\ r = <<>> <=> /\ PolicyAuth.decision = "Allow"
                            /\ Policy.role_based_access /\ Policy.access_logging
                            /\ Policy.data_minimization /\ Policy.lawful_processing

\* An allowed verdict that carries two reasons, in flag order, under a
\* policy whose gdpr flag is false.
C26_Witness ==
    /\ Judged
    /\ Verdict.allowed
    /\ ~Policy.compliance.gdpr
    /\ Verdict.reasons = <<"Access logging disabled; policy expects full audit trail.",
                           "Lawful processing flag is false.">>

----------------------------------------------------------------------------
(* Validated scalars: properties *)

\* A constructor has returned.
Constructed == scalarOut # Idle

ScalarResult == Unwrap(scalarOut).result

\* C17: Score::new and EcoScalar::new succeed exactly for inputs in
\* [0.0, 1.0], both endpoints included, returning the input; every other
\* input gives an error and no value.
C17_ScalarRange ==
    Constructed =>
        LET v == Unwrap(scalarIn)
            inRange == 0 <= v.num /\ v.num <= v.den
        IN  /\ ScalarResult.ok <=> inRange
            /\ ScalarResult.ok =>
                /\ ScalarResult.value = v
                /\ 0 <= ScalarResult.value.num
                /\ ScalarResult.value.num <= ScalarResult.value.den
            /\ ~ScalarResult.ok => "value" \notin DOMAIN ScalarResult

\* The upper endpoint 1.0 is accepted as a Score.
C17_Witness ==
    /\ Constructed
    /\ Unwrap(scalarOut).type = "Score"
    /\ Unwrap(scalarIn) = One
    /\ ScalarResult.ok

----------------------------------------------------------------------------
(* Aggregate scores: properties *)

\* An aggregate has been computed.
Aggregated == aggResult # Idle

Components == Unwrap(bundle).components

\* The deviations of the components from x add up to this integer over a
\* positive denominator: zero exactly when x is their arithmetic mean.
RECURSIVE DeviationSum(_, _)
DeviationSum(seq, x) ==
    IF seq = <<>> THEN Zero
    ELSE RAdd(DeviationSum(Tail(seq), x), RSub(Head(seq), x))

\* C18: the aggregate is the arithmetic mean of the bundle's components,
\* and lies in [0, 1] when all components do, for the four-component
\* bundles and for the nine-component EnvironmentalMetrics.
C18_AggregateIsBoundedMean ==
    Aggregated =>
        LET a == Unwrap(aggResult)
            inRange(x) == 0 <= x.num /\ x.num <= x.den
        IN  /\ DeviationSum(Components, a) = Zero
            /\ (\A i \in DOMAIN Components : inRange(Components[i])) => inRange(a)

\* A nine-component bundle with unequal components and its mean, strictly
\* inside (0, 1).
C18_Witness ==
    /\ Aggregated
    /\ Unwrap(bundle).type = "EnvironmentalMetrics"
    /\ \E i, j \in DOMAIN Components : Components[i] # Components[j]
    /\ Components[1] = One
    /\ RLt(Zero, Unwrap(aggResult)) /\ RLt(Unwrap(aggResult), One)

----------------------------------------------------------------------------
(* Corridor identifiers: properties *)

\* A construction has been attempted.
Built == idOut # Idle

IdInput == Unwrap(idIn)

IdResult == Unwrap(idOut).result

\* The string is empty or consists of blanks only.
Blank(str) == \A i \in DOMAIN str : str[i] = " "

\* What the three constructor functions have in common: a blank string
\* fails, from_str also fails without a ':', a success holds a non-empty
\* identifier and a failure holds none.
ConstructorValidates ==
    /\ Blank(IdInput) => ~IdResult.ok
    /\ Unwrap(idOut).type = "from_str" /\ (\A i \in DOMAIN IdInput : IdInput[i] # ":")
        => ~IdResult.ok
    /\ IdResult.ok => IdResult.value # <<>> /\ ~Blank(IdResult.value)
    /\ ~IdResult.ok => "value" \notin DOMAIN IdResult

\* C19: construction fails for an empty or whitespace-only string in every
\* variant and from_str also fails without a ':'; every CorridorId that
\* exists is non-empty, and a failed construction yields no value.
C19_CorridorIdNonEmpty ==
    Built =>
        /\ Unwrap(idOut).type \in {"from_str", "new", "morpheus::new"} => ConstructorValidates
        /\ IdResult.ok => IdResult.value # <<>>

\* The part of C19 that the three constructor functions satisfy.
CorridorIdConstructorsValidate ==
    Built /\ Unwrap(idOut).type \in {"from_str", "new", "morpheus::new"}
        => ConstructorValidates

----------------------------------------------------------------------------
(* Concurrent callers: properties *)

\* The callers that have their result.
Answered == {p \in Callers : callers[p].result # None}

\* The result a caller gets when it runs alone on the kernel main built
\* and on the shared corridor record; the id of a recommendation is the
\* caller's own.
MatchesSolo(p) ==
    LET r == Unwrap(callers[p].result)
    IN  IF callers[p].kind = "envelope"
        THEN /\ r.evaluation = evaluate(EnvelopeConfig_default, callers[p].input)
             /\ <<r.message, r.recommended_action>> = Template[r.evaluation.status]
        ELSE r = check_preconditions(record, callers[p].input)

\* Two results agree in everything but the recommendation id.
SameButId(r1, r2) ==
    IF "id" \in DOMAIN r1
    THEN /\ r1.evaluation = r2.evaluation
         /\ r1.message = r2.message
         /\ r1.recommended_action = r2.recommended_action
    ELSE r1 = r2

\* C21: under every interleaving of the callers each caller has the result
\* it would get running alone (callers with the same input agree in all
\* but the recommendation id), and no step of any caller changes the
\* kernel's config or the corridor record.
C21_CallersIsolated ==
    /\ [](/\ guard = GuardKernel(EnvelopeConfig_default)
          /\ \A p \in Answered : MatchesSolo(p)
          /\ \A p, q \in Answered :
                callers[p].kind = callers[q].kind /\ callers[p].input = callers[q].input
                    => SameButId(Unwrap(callers[p].result), Unwrap(callers[q].result)))
    /\ [][guard' = guard /\ record' = record]_vars

\* Two requests with the same telemetry, the second caller having taken
\* the metrics lock first, both answered, with different ids.
C21_Witness ==
    /\ callers[1].kind = "envelope" /\ callers[2].kind = "envelope"
    /\ callers[1].input = callers[2].input
    /\ callers[1].pc = "done" /\ callers[2].pc = "done"
    /\ lockOrder = <<2, 1>>
    /\ Unwrap(callers[1].result).id # Unwrap(callers[2].result).id
    /\ Unwrap(callers[1].result).evaluation.status = "HardDeny"
    /\ Unwrap(callers[2].result).evaluation.status = "HardDeny"

\* The requests whose observation has been recorded.
Observed == {p \in Callers : callers[p].kind = "envelope" /\ callers[p].pc \in {"observed", "done"}}

\* The recorded requests answered with the given status.
ObservedAs(status) == {p \in Observed : Unwrap(callers[p].result).evaluation.status = status}

\* The request that recorded its observation last.
LastObserved ==
    LET IsObserved(p) == p \in Observed
        seq == SelectSeq(lockOrder, IsObserved)
    IN  IF seq = <<>> THEN None ELSE Some(seq[Len(seq)])

\* g is x times 100 with the fraction dropped (x >= 0).
IsHundredfold(g, x) == g * x.den <= 100 * x.num /\ 100 * x.num < (g + 1) * x.den

\* C24: each request takes the lock once and records one observation of
\* its own recommendation: caution_total and hard_deny_total count the
\* recorded Caution and HardDeny responses, Safe responses count nowhere,
\* the gauge holds the composite margin times 100, truncated, of the
\* request that recorded last, and no counter ever decreases.
C24_MetricsCountResponses ==
    /\ [](/\ metrics.caution_total = Cardinality(ObservedAs("Caution"))
          /\ metrics.hard_deny_total = Cardinality(ObservedAs("HardDeny"))
          /\ \A i, j \in DOMAIN lockOrder : i # j => lockOrder[i] # lockOrder[j]
          /\ \A p \in Observed : \E i \in DOMAIN lockOrder : lockOrder[i] = p
          /\ IF LastObserved = None THEN metrics.last_composite_margin = 0
             ELSE IsHundredfold(metrics.last_composite_margin,
                    Unwrap(callers[Unwrap(LastObserved)].result).evaluation.composite_margin))
    /\ [][/\ metrics'.caution_total >= metrics.caution_total
          /\ metrics'.hard_deny_total >= metrics.hard_deny_total]_vars

\* Both requests completed, a Caution of composite 17/16 recorded first and
\* a HardDeny of composite 2/3 recorded last.
C24_Witness ==
    /\ callers[1].pc = "done" /\ callers[2].pc = "done"
    /\ callers[1].kind = "envelope" /\ callers[2].kind = "envelope"
    /\ Unwrap(callers[1].result).evaluation.composite_margin = Rat(2, 3)
    /\ Unwrap(callers[2].result).evaluation.composite_margin = Rat(17, 16)
    /\ lockOrder = <<2, 1>>
    /\ metrics = [last_composite_margin |-> 66, caution_total |-> 1, hard_deny_total |-> 1]

----------------------------------------------------------------------------
(* The map of corridor records: properties *)

\* The record most recently upserted with the id, if any.
RECURSIVE LastUpserted(_, _)
LastUpserted(h, id) ==
    IF h = <<>> THEN None
    ELSE IF h[Len(h)].descriptor.id = id THEN Some(h[Len(h)])
    ELSE LastUpserted(SubSeq(h, 1, Len(h) - 1), id)

\* C22: get(id) is the whole record most recently upserted with that id
\* (nothing when there was none), every key is the id of the record stored
\* under it (one record per id), and an upsert for one id leaves what is
\* stored under every other id as it was.
C22_UpsertReplacesWholeRecord ==
    /\ [](/\ \A id \in RegistryIds : get(corridors, id) = LastUpserted(history, id)
          /\ \A k \in DOMAIN corridors : corridors[k].descriptor.id = k
          /\ (lookup # None /\ Unwrap(lookup).op = "get")
                => Unwrap(lookup).result = LastUpserted(history, Unwrap(lookup).id))
    /\ [][\A id \in RegistryIds :
            (Len(history') > Len(history) /\ history'[Len(history')].descriptor.id # id)
                => get(corridors', id) = get(corridors, id)]_vars

\* A record replaced by one that differs in FPIC status and notes, with an
\* upsert for the other id in between, and get returning the later one.
C22_Witness ==
    /\ Len(history) = 3
    /\ history[1].descriptor.id = history[3].descriptor.id
    /\ history[2].descriptor.id # history[3].descriptor.id
    /\ history[1].fpic # history[3].fpic
    /\ history[1].cultural_notes # history[3].cultural_notes
    /\ lookup = Some([op |-> "get", id |-> history[3].descriptor.id, result |-> Some(history[3])])

\* C23: a request for a corridor that is not registered is rejected by the
\* lookup, with a not-found denial of its own kind, and never reaches
\* check_preconditions.  The registry of eco-corridor-core is the one
\* record the gate is called on.
C23_UnregisteredNeverReachesGate ==
    Checked => Req.corridor_id = map.corridor_id

\* The part of C23 about the map crate: ensure_exists(id) is Ok exactly
\* when an earlier upsert stored a record under id, and its denial is not
\* the gate's mismatch denial.
EnsureExistsIffUpserted ==
    (lookup # None /\ Unwrap(lookup).op = "ensure_exists")
        => LET res == Unwrap(Unwrap(lookup).result)
               id == Unwrap(lookup).id
           IN  /\ res.ok <=> \E i \in DOMAIN history : history[i].descriptor.id = id
               /\ ~res.ok => res.reason # MismatchReason

----------------------------------------------------------------------------
(* FPIC status: properties *)

\* A label or a grant flag has been computed.
Labelled == labelOut # Idle

FpicRecord == Unwrap(fpicIn).value

\* Four times the aggregate of the morpheus record's eco-impact bundle.
EcoSum ==
    RAdd(RAdd(RAdd(FpicRecord.eco_impact.soil_score, FpicRecord.eco_impact.water_score),
              FpicRecord.eco_impact.microbiome_score), FpicRecord.eco_impact.biodiversity_score)

\* C28: Granted is the only authorizing state: has_active_fpic is true
\* exactly for Granted; advisory_risk_label is blocked_fpic_withheld for
\* Withheld and hold_fpic_pending for Pending whatever the eco score, and
\* for Granted it is low_risk_observational from aggregate 0.8,
\* medium_risk_review from 0.5 up to 0.8 and high_risk_review below 0.5.
C28_OnlyGrantedAuthorizes ==
    Labelled =>
        IF Unwrap(fpicIn).type = "IndigenousEcoCorridor"
        THEN Unwrap(labelOut).active <=> FpicRecord.fpic.tag = "Granted"
        ELSE LET label == Unwrap(labelOut).label
                 tag == FpicRecord.fpic_status.tag
             IN  /\ tag = "Withheld" => label = "blocked_fpic_withheld"
                 /\ tag = "Pending" => label = "hold_fpic_pending"
                 /\ label \in {"low_risk_observational", "medium_risk_review", "high_risk_review"}
                        => tag = "Granted"
                 /\ tag = "Granted" =>
                        label = IF RGe(EcoSum, Rat(16, 5)) THEN "low_risk_observational"
                                ELSE IF RGe(EcoSum, Rat(2, 1)) THEN "medium_risk_review"
                                ELSE "high_risk_review"

\* A Pending record with an aggregate of exactly 0.8 is held, not labelled
\* low risk.
C28_Witness ==
    /\ Labelled
    /\ Unwrap(fpicIn).type = "IndigenousEcoCorridorRecord"
    /\ FpicRecord.fpic_status.tag = "Pending"
    /\ EcoSum = Rat(16, 5)
    /\ Unwrap(labelOut).label = "hold_fpic_pending"

====
